---- MODULE Spec2Model ----
(***************************************************************************)
(* Model of data_mapper.py: the rule loop of perform_data_mapping, the     *)
(* per-column transforms it dispatches to (pandas .str methods and         *)
(* Series.apply of the two nested helpers), suggest_transformation,        *)
(* similar_patterns and the pairing loop of reverse_engineer_mapping.      *)
(*                                                                         *)
(* A cell is a record [tag, s, n]: text (s = sequence of one-character     *)
(* strings), number (n) or absent (the NaN pandas reads for an empty       *)
(* cell).  A column is a sequence of cells, a dataset a function from      *)
(* column names to columns of one length.  Reading and writing the Excel   *)
(* files (lines 19-38, and the failure of to_excel) is left to pandas: the *)
(* model starts with both tables read.                                     *)
(***************************************************************************)
EXTENDS Integers, Sequences, FiniteSets, TLC

VARIABLES input_data, mapping_config, output_data, i, pc, saved, error, applied,
          input_file, target_file, input_analysis, target_analysis,
          suggested_mappings, ti, si

vars == <<input_data, mapping_config, output_data, i, pc, saved, error, applied,
          input_file, target_file, input_analysis, target_analysis,
          suggested_mappings, ti, si>>

engineVars == <<input_data, mapping_config, output_data, i, pc, saved, error, applied>>
engineVarsButPc == <<input_data, mapping_config, output_data, i, saved, error, applied>>
inferVars == <<input_file, target_file, input_analysis, target_analysis,
               suggested_mappings, ti, si>>

(***************************************************************************)
(* Bounds of the model.                                                    *)
(***************************************************************************)
MaxRules == 2
MaxRec == 2
MaxLen == 5
MaxAge == 50
MaxCols == 2

(***************************************************************************)
(* Cells.                                                                  *)
(***************************************************************************)
Text(s) == [tag |-> "text", s |-> s, n |-> 0]
Num(n) == [tag |-> "number", s |-> <<>>, n |-> n]
Absent == [tag |-> "absent", s |-> <<>>, n |-> 0]

Min(a, b) == IF a < b THEN a ELSE b

(***************************************************************************)
(* Python str methods on a text (a sequence of characters).                *)
(***************************************************************************)
UpperChar(c) == CASE c = "a" -> "A" [] c = "b" -> "B" [] c = "c" -> "C" [] OTHER -> c
LowerChar(c) == CASE c = "A" -> "a" [] c = "B" -> "b" [] c = "C" -> "c" [] OTHER -> c

upper(s) == [k \in 1..Len(s) |-> UpperChar(s[k])]
lower(s) == [k \in 1..Len(s) |-> LowerChar(s[k])]

\* position of the first '@' of s, 0 when s has none ('@' in s  <=>  FirstAt(s) > 0)
FirstAt(s) ==
    IF \E k \in 1..Len(s) : s[k] = "@"
    THEN CHOOSE k \in 1..Len(s) : s[k] = "@" /\ \A j \in 1..(k - 1) : s[j] # "@"
    ELSE 0

\* s.split('@'): the pieces between all the '@' of s, never an empty list
RECURSIVE split(_)
split(s) ==
    IF FirstAt(s) = 0 THEN <<s>>
    ELSE <<SubSeq(s, 1, FirstAt(s) - 1)>> \o split(SubSeq(s, FirstAt(s) + 1, Len(s)))

\* s[:3]
slice3(s) == SubSeq(s, 1, Min(3, Len(s)))

(***************************************************************************)
(* The nested helpers of perform_data_mapping, applied by Series.apply to  *)
(* every cell, absent ones included.  "TypeError" is the exception Python  *)
(* raises; any other result is the returned cell.                          *)
(***************************************************************************)
TypeError == [tag |-> "TypeError", s |-> <<>>, n |-> 0]

\* email.split('@')[1] if '@' in email else ''
extract_domain(email) ==
    IF email.tag # "text" THEN TypeError
    ELSE IF FirstAt(email.s) > 0 THEN Text(split(email.s)[2]) ELSE Text(<<>>)

\* age_category with <= for < in both comparisons
age_category_le(age) ==
    CASE age.tag = "text" -> TypeError
      [] age.tag = "absent" -> Text(<<"S", "e", "n", "i", "o", "r">>)
      [] OTHER ->
            IF age.n <= 30 THEN Text(<<"Y", "o", "u", "n", "g">>)
            ELSE IF age.n <= 45 THEN Text(<<"M", "i", "d", "d", "l", "e">>)
            ELSE Text(<<"S", "e", "n", "i", "o", "r">>)

\* a NaN compares False with everything and falls through to the else branch
age_category(age) ==
    CASE age.tag = "text" -> TypeError
      [] age.tag = "absent" -> Text(<<"S", "e", "n", "i", "o", "r">>)
      [] OTHER ->
            IF age.n < 30 THEN Text(<<"Y", "o", "u", "n", "g">>)
            ELSE IF age.n < 45 THEN Text(<<"M", "i", "d", "d", "l", "e">>)
            ELSE Text(<<"S", "e", "n", "i", "o", "r">>)

(***************************************************************************)
(* pandas: the dtype read_excel gives a column, and the .str methods.      *)
(***************************************************************************)
dtype(col) ==
    IF Len(col) = 0 \/ \E k \in 1..Len(col) : col[k].tag = "text" THEN "object"
    ELSE IF \E k \in 1..Len(col) : col[k].tag = "absent" THEN "float64"
    ELSE "int64"

\* .str.upper(), .str.lower(), .str[:3]: a cell that is no text becomes NaN
str_upper(c) == IF c.tag = "text" THEN Text(upper(c.s)) ELSE Absent
str_lower(c) == IF c.tag = "text" THEN Text(lower(c.s)) ELSE Absent
str_slice3(c) == IF c.tag = "text" THEN Text(slice3(c.s)) ELSE Absent
\* .str.split('@').str[0]
str_before_at(c) == IF c.tag = "text" THEN Text(split(c.s)[1]) ELSE Absent
\* .str[0]: NaN where the text has no character at position 0
str_get0(c) == IF c.tag = "text" /\ Len(c.s) > 0 THEN Text(<<c.s[1]>>) ELSE Absent

(***************************************************************************)
(* One row of the mapping table: what its branch of the if/elif chain      *)
(* computes.  kind "ok": the branch produced the column col; "raise": the  *)
(* branch raised exc; "skip": no branch compares equal to transform_rule.  *)
(***************************************************************************)
KnownRules == {"direct", "uppercase", "lowercase", "first_three_chars",
               "extract_domain", "age_category", "before_at", "first_letter"}

Ok(col) == [kind |-> "ok", col |-> col, exc |-> ""]
Raise(exc) == [kind |-> "raise", col |-> <<>>, exc |-> exc]
Skip == [kind |-> "skip", col |-> <<>>, exc |-> ""]

\* input_data[source_field]; a name that is no column raises KeyError
\* input_data[source_field].str: only an object column has the accessor
str_accessor(data, src) ==
    IF src \notin DOMAIN data THEN "KeyError"
    ELSE IF dtype(data[src]) # "object" THEN "AttributeError"
    ELSE ""

\* input_data[source_field].apply(f), for f returning TypeError as its exception
apply_raises(col, res) == \E k \in 1..Len(col) : res[k] = TypeError

\* a copy that drops the empty cells (input_data[source_field].dropna())
col_direct_dropna(col) == SelectSeq(col, LAMBDA c : c # Absent)

col_direct(col) == col
col_upper(col) == [k \in 1..Len(col) |-> str_upper(col[k])]
col_lower(col) == [k \in 1..Len(col) |-> str_lower(col[k])]
col_first_three(col) == [k \in 1..Len(col) |-> str_slice3(col[k])]
col_extract_domain(col) == [k \in 1..Len(col) |-> extract_domain(col[k])]
col_age_category(col) == [k \in 1..Len(col) |-> age_category(col[k])]
col_before_at(col) == [k \in 1..Len(col) |-> str_before_at(col[k])]
col_first_letter(col) == [k \in 1..Len(col) |-> str_get0(col[k])]

StrBranch(data, src, res) ==
    IF str_accessor(data, src) # "" THEN Raise(str_accessor(data, src)) ELSE Ok(res)

ApplyBranch(data, src, res) ==
    IF src \notin DOMAIN data THEN Raise("KeyError")
    ELSE IF apply_raises(data[src], res) THEN Raise("TypeError")
    ELSE Ok(res)

RuleOutcome(data, mapping) ==
    LET source_field == mapping.source_field
        transform_rule == mapping.transform_rule
        col == IF source_field \in DOMAIN data THEN data[source_field] ELSE <<>>
    IN  CASE transform_rule = "direct" ->
               IF source_field \notin DOMAIN data THEN Raise("KeyError")
               ELSE Ok(col_direct(col))
          [] transform_rule = "uppercase" -> StrBranch(data, source_field, col_upper(col))
          [] transform_rule = "lowercase" -> StrBranch(data, source_field, col_lower(col))
          [] transform_rule = "first_three_chars" ->
               StrBranch(data, source_field, col_first_three(col))
          [] transform_rule = "extract_domain" ->
               ApplyBranch(data, source_field, col_extract_domain(col))
          [] transform_rule = "age_category" ->
               ApplyBranch(data, source_field, col_age_category(col))
          [] transform_rule = "before_at" ->
               StrBranch(data, source_field, col_before_at(col))
          [] transform_rule = "first_letter" ->
               StrBranch(data, source_field, col_first_letter(col))
          [] OTHER -> Skip

\* an assignment that keeps a column the frame already has
set_column_keep_first(out, target_field, series) ==
    [t \in DOMAIN out \cup {target_field} |->
        IF t \in DOMAIN out THEN out[t] ELSE series]

\* output_data[target_field] = series
set_column(out, target_field, series) ==
    [t \in DOMAIN out \cup {target_field} |->
        IF t = target_field THEN series ELSE out[t]]

(***************************************************************************)
(* perform_data_mapping: one action per iteration of the rule loop (by its *)
(* outcome), and the save that follows the loop.  applied records the rows *)
(* whose branch ran to its assignment.                                     *)
(***************************************************************************)
NoFrame == [t \in {} |-> <<>>]

InLoop == pc = "loop" /\ i <= Len(mapping_config)

ApplyRule ==
    /\ InLoop
    /\ RuleOutcome(input_data, mapping_config[i]).kind = "ok"
    /\ output_data' = set_column(output_data, mapping_config[i].target_field,
                                 RuleOutcome(input_data, mapping_config[i]).col)
    /\ applied' = applied \cup {i}
    /\ i' = i + 1
    /\ UNCHANGED <<input_data, mapping_config, pc, saved, error, inferVars>>

SkipRule ==
    /\ InLoop
    /\ RuleOutcome(input_data, mapping_config[i]).kind = "skip"
    /\ i' = i + 1
    /\ UNCHANGED <<input_data, mapping_config, output_data, pc, saved, error,
                   applied, inferVars>>

\* the exception reported and the loop carried on with the next row
RaiseRuleSwallowed ==
    /\ InLoop
    /\ RuleOutcome(input_data, mapping_config[i]).kind = "raise"
    /\ error' = RuleOutcome(input_data, mapping_config[i]).exc
    /\ i' = i + 1
    /\ UNCHANGED <<input_data, mapping_config, output_data, pc, saved, applied, inferVars>>

RaiseRule ==
    /\ InLoop
    /\ RuleOutcome(input_data, mapping_config[i]).kind = "raise"
    /\ error' = RuleOutcome(input_data, mapping_config[i]).exc
    /\ pc' = "raised"
    /\ UNCHANGED <<input_data, mapping_config, output_data, i, saved, applied, inferVars>>

SaveOutput ==
    /\ pc = "loop" /\ i > Len(mapping_config)
    /\ saved' = <<output_data>>
    /\ pc' = "done"
    /\ UNCHANGED <<input_data, mapping_config, output_data, i, error, applied, inferVars>>

NextEngine == ApplyRule \/ SkipRule \/ RaiseRule \/ SaveOutput

(***************************************************************************)
(* Inputs.                                                                 *)
(***************************************************************************)
SeqsUpTo(S, n) == UNION {[1..k -> S] : k \in 0..n}

Sources == {"c1", "c2", "zz"}
Targets == {"T", "U"}
Kinds == KnownRules \cup {"bogus"}
Rules == [source_field : Sources, target_field : Targets, transform_rule : Kinds]

AtB == <<"a", "@", "B">>
Ab == <<"A", "b">>
ColVals == {Absent, Num(29), Text(AtB), Text(Ab)}

\* datasets with the columns c1 and c2, n records each
Datasets(n, V) == UNION {[{"c1", "c2"} -> [1..k -> V]] : k \in 0..n}

InferIdle ==
    /\ input_file = <<>>
    /\ target_file = <<>>
    /\ input_analysis = <<>>
    /\ target_analysis = <<>>
    /\ suggested_mappings = <<>>
    /\ ti = 0
    /\ si = 0

InitEngine(D, M) ==
    /\ input_data \in D
    /\ mapping_config \in M
    /\ output_data = NoFrame
    /\ i = 1
    /\ pc = "loop"
    /\ saved = <<>>
    /\ error = ""
    /\ applied = {}
    /\ InferIdle

\* one-record datasets: c1 a text or an empty cell, c2 a number or a text
SmallDatasets ==
    {[c \in {"c1", "c2"} |-> IF c = "c1" THEN <<v1>> ELSE <<v2>>] :
        v1 \in {Text(AtB), Absent}, v2 \in {Num(29), Text(Ab)}}

Init == InitEngine(SmallDatasets, SeqsUpTo(Rules, MaxRules))
Spec == Init /\ [][NextEngine]_vars

\* one rule over datasets of up to MaxRec records
InitColumn == InitEngine(Datasets(MaxRec, ColVals), [1..1 -> Rules])
SpecColumn == InitColumn /\ [][NextEngine]_vars

\* one rule over one record: every text of up to MaxLen characters, every
\* number up to MaxAge, and the empty cell
Alphabet == {"a", "B", "@"}
Texts == {Text(w) : w \in SeqsUpTo(Alphabet, MaxLen)}
Numbers == {Num(n) : n \in 0..MaxAge}
Cells == Texts \cup Numbers \cup {Absent}
CellDatasets == {[c \in {"c1", "c2"} |-> <<v>>] : v \in Cells}

InitValue == InitEngine(CellDatasets, [1..1 -> Rules])
SpecValue == InitValue /\ [][NextEngine]_vars

(***************************************************************************)
(* analyze_data_structure, suggest_transformation, similar_patterns and    *)
(* reverse_engineer_mapping.  A file is the sequence of its columns in     *)
(* schema order, each summarised by its name, its dtype string and the     *)
(* four flags of detect_patterns.                                          *)
(***************************************************************************)
\* suggest_transformation with the all_uppercase test moved to the front
suggest_transformation_upper_first(column_analysis) ==
    IF column_analysis.patterns.all_uppercase THEN "direct or lowercase"
    ELSE IF column_analysis.patterns.has_email THEN "extract_domain or before_at"
    ELSE IF column_analysis.data_type = "int64"
         THEN "age_category if age-related, otherwise direct"
    ELSE IF column_analysis.patterns.all_lowercase THEN "direct or uppercase"
    ELSE "direct"

suggest_transformation(column_analysis) ==
    IF column_analysis.patterns.has_email THEN "extract_domain or before_at"
    ELSE IF column_analysis.data_type = "int64"
         THEN "age_category if age-related, otherwise direct"
    ELSE IF column_analysis.patterns.all_uppercase THEN "direct or lowercase"
    ELSE IF column_analysis.patterns.all_lowercase THEN "direct or uppercase"
    ELSE "direct"

\* similar_patterns with its first "or" written "and"
similar_patterns_and(source_info, target_info) ==
    \/ /\ source_info.data_type = target_info.data_type
       /\ source_info.patterns.has_email /\ target_info.patterns.has_email
    \/ (source_info.patterns.numeric_only /\ target_info.patterns.numeric_only)

similar_patterns(source_info, target_info) ==
    \/ source_info.data_type = target_info.data_type
    \/ (source_info.patterns.has_email /\ target_info.patterns.has_email)
    \/ (source_info.patterns.numeric_only /\ target_info.patterns.numeric_only)

\* analysis['columns'] and analysis['suggested_mappings'], both in column order
analyze_data_structure(file) ==
    [columns |-> file,
     suggested_mappings |-> [k \in 1..Len(file) |-> suggest_transformation(file[k])]]

AnalyzeInput ==
    /\ pc = "analyze_input"
    /\ input_analysis' = analyze_data_structure(input_file)
    /\ pc' = "analyze_target"
    /\ UNCHANGED <<engineVarsButPc, input_file, target_file, target_analysis,
                   suggested_mappings, ti, si>>

AnalyzeTarget ==
    /\ pc = "analyze_target"
    /\ target_analysis' = analyze_data_structure(target_file)
    /\ pc' = "pairs"
    /\ ti' = 1
    /\ si' = 1
    /\ UNCHANGED <<engineVarsButPc, input_file, target_file, input_analysis,
                   suggested_mappings>>

InPair ==
    /\ pc = "pairs"
    /\ ti <= Len(target_analysis.columns)
    /\ si <= Len(input_analysis.columns)

EmitPair ==
    /\ InPair
    /\ similar_patterns(input_analysis.columns[si], target_analysis.columns[ti])
    /\ suggested_mappings' = Append(suggested_mappings,
            [source_field |-> input_analysis.columns[si].name,
             target_field |-> target_analysis.columns[ti].name,
             transform_rule |-> suggest_transformation(input_analysis.columns[si])])
    /\ si' = si + 1
    /\ UNCHANGED <<engineVarsButPc, pc, input_file, target_file, input_analysis,
                   target_analysis, ti>>

SkipPair ==
    /\ InPair
    /\ ~similar_patterns(input_analysis.columns[si], target_analysis.columns[ti])
    /\ si' = si + 1
    /\ UNCHANGED <<engineVarsButPc, pc, input_file, target_file, input_analysis,
                   target_analysis, suggested_mappings, ti>>

NextTarget ==
    /\ pc = "pairs"
    /\ ti <= Len(target_analysis.columns)
    /\ si > Len(input_analysis.columns)
    /\ ti' = ti + 1
    /\ si' = 1
    /\ UNCHANGED <<engineVarsButPc, pc, input_file, target_file, input_analysis,
                   target_analysis, suggested_mappings>>

ReturnMappings ==
    /\ pc = "pairs"
    /\ ti > Len(target_analysis.columns)
    /\ pc' = "returned"
    /\ UNCHANGED <<engineVarsButPc, inferVars>>

NextInfer ==
    AnalyzeInput \/ AnalyzeTarget \/ EmitPair \/ SkipPair \/ NextTarget \/ ReturnMappings

(***************************************************************************)
(* Column summaries analyze_data_structure can compute.  detect_patterns   *)
(* sets every flag False unless the dtype is object; over an object column *)
(* has_email is an any() and the three others are all(), so a column with  *)
(* an '@' is not numeric_only, and all_uppercase and all_lowercase hold    *)
(* together only for the column without a text, where numeric_only holds   *)
(* too.                                                                    *)
(***************************************************************************)
Patterns ==
    {p \in [has_email : BOOLEAN, all_uppercase : BOOLEAN,
            all_lowercase : BOOLEAN, numeric_only : BOOLEAN] :
        /\ ~(p.has_email /\ p.numeric_only)
        /\ (p.all_uppercase /\ p.all_lowercase) => p.numeric_only
        /\ p.numeric_only => (p.all_uppercase <=> p.all_lowercase)}

NoPatterns == [has_email |-> FALSE, all_uppercase |-> FALSE,
               all_lowercase |-> FALSE, numeric_only |-> FALSE]

Profiles ==
    [data_type : {"object"}, patterns : Patterns]
        \cup [data_type : {"int64", "float64"}, patterns : {NoPatterns}]

SourceNames == <<"s1", "s2", "s3", "s4">>
TargetNames == <<"t1", "t2", "t3", "t4">>

Named(names, profs) ==
    [k \in 1..Len(profs) |->
        [name |-> names[k], data_type |-> profs[k].data_type,
         patterns |-> profs[k].patterns]]

\* of a target column the pairing reads data_type, has_email and numeric_only only
TargetProfiles ==
    {p \in Profiles : ~p.patterns.all_uppercase /\ ~p.patterns.all_lowercase}

Files(names, P) == {Named(names, profs) : profs \in SeqsUpTo(P, MaxCols)}

InitInfer ==
    /\ input_file \in Files(SourceNames, Profiles)
    /\ target_file \in Files(TargetNames, TargetProfiles)
    /\ input_analysis = <<>>
    /\ target_analysis = <<>>
    /\ suggested_mappings = <<>>
    /\ ti = 0
    /\ si = 0
    /\ pc = "analyze_input"
    /\ input_data = NoFrame
    /\ mapping_config = <<>>
    /\ output_data = NoFrame
    /\ i = 0
    /\ saved = <<>>
    /\ error = ""
    /\ applied = {}

SpecInfer == InitInfer /\ [][NextInfer]_vars

(***************************************************************************)
(* Properties of the rule engine.                                          *)
(***************************************************************************)
Rows == 1..Len(mapping_config)
RowFails(k) == RuleOutcome(input_data, mapping_config[k]).kind = "raise"
IsFirstFailing(f) == RowFails(f) /\ \A j \in 1..(f - 1) : ~RowFails(j)
RowsFor(t) == {k \in Rows : mapping_config[k].target_field = t}
LastRowFor(t) == CHOOSE k \in RowsFor(t) : \A j \in RowsFor(t) : j <= k

\* C1: a run over a mapping table holding a row whose transform_rule is none
\* of the eight known rules ends in an error: it never completes.
C1_UnknownRuleIsError ==
    pc = "done" => \A k \in Rows : mapping_config[k].transform_rule \in KnownRules

\* C2: when some row fails, the run stops at the first failing row in row
\* order: no row at or after it is applied, the loop never moves past it, and
\* the output is never saved, whatever the earlier rows produced.
C2_AbortAtFirstFailure ==
    \A f \in Rows :
        IsFirstFailing(f) =>
            /\ i <= f
            /\ applied \subseteq 1..(f - 1)
            /\ DOMAIN output_data \subseteq
                  {mapping_config[k].target_field : k \in 1..(f - 1)}
            /\ saved = <<>>
            /\ pc # "done"
            /\ pc = "raised" => (i = f /\ error # "")

\* a run raised at its second row, for a source_field that is no input column,
\* after the first row had produced a column
C2_Witness ==
    /\ pc = "raised"
    /\ i = 2
    /\ applied = {1}
    /\ DOMAIN output_data # {}
    /\ mapping_config[2].source_field \notin DOMAIN input_data
    /\ saved = <<>>

\* C3: once every row has been applied, a target column named by one or more
\* rows holds the result of the last of them in row order, applied to that
\* row's own source column.
C3_LastWriteWins ==
    (pc = "done" /\ applied = Rows) =>
        /\ DOMAIN saved[1] = {mapping_config[k].target_field : k \in Rows}
        /\ \A t \in DOMAIN saved[1] :
              saved[1][t] = RuleOutcome(input_data, mapping_config[LastRowFor(t)]).col

\* two applied rows with one target and two source columns whose results differ
C3_Witness ==
    /\ pc = "done"
    /\ Len(mapping_config) = 2
    /\ applied = {1, 2}
    /\ mapping_config[1].target_field = mapping_config[2].target_field
    /\ mapping_config[1].source_field # mapping_config[2].source_field
    /\ RuleOutcome(input_data, mapping_config[1]).col
          # RuleOutcome(input_data, mapping_config[2]).col
    /\ saved[1][mapping_config[2].target_field]
          = RuleOutcome(input_data, mapping_config[2]).col

(***************************************************************************)
(* Properties of one rule over one source column.                          *)
(***************************************************************************)
TheRule == mapping_config[1]
HasSource == TheRule.source_field \in DOMAIN input_data
SourceCol == input_data[TheRule.source_field]
TargetCol == saved[1][TheRule.target_field]

\* C4: for each of the eight rules, a record whose source cell is absent has
\* an absent target cell, and a source column of absent cells raises nothing.
C4_AbsentPropagates ==
    (TheRule.transform_rule \in KnownRules /\ HasSource) =>
        /\ pc = "done" =>
              \A k \in 1..Len(SourceCol) : SourceCol[k] = Absent => TargetCol[k] = Absent
        /\ pc = "raised" => \E k \in 1..Len(SourceCol) : SourceCol[k] # Absent

\* C6: uppercase or lowercase over a column holding a number, and age_category
\* over a column holding a text, never complete.
C6_TypeMismatchIsError ==
    (/\ HasSource
     /\ \/ /\ TheRule.transform_rule \in {"uppercase", "lowercase"}
           /\ \E k \in 1..Len(SourceCol) : SourceCol[k].tag = "number"
        \/ /\ TheRule.transform_rule = "age_category"
           /\ \E k \in 1..Len(SourceCol) : SourceCol[k].tag = "text")
        => pc # "done"

\* C8: a single direct rule on a column of the input raises nothing and saves
\* one column, of as many records as the input, equal to the source column
\* record by record.
C8_DirectCopies ==
    (Len(mapping_config) = 1 /\ TheRule.transform_rule = "direct" /\ HasSource) =>
        /\ pc # "raised"
        /\ pc = "done" =>
              /\ DOMAIN saved[1] = {TheRule.target_field}
              /\ Len(TargetCol) = Len(SourceCol)
              /\ \A k \in 1..Len(SourceCol) : TargetCol[k] = SourceCol[k]

\* a direct copy of two records that differ, the second one absent
C8_Witness ==
    /\ pc = "done"
    /\ TheRule.transform_rule = "direct"
    /\ HasSource
    /\ Len(SourceCol) = 2
    /\ SourceCol[1] # SourceCol[2]
    /\ SourceCol[2] = Absent
    /\ TargetCol = SourceCol

(***************************************************************************)
(* Properties of the transforms on one cell.                               *)
(***************************************************************************)
SourceCell == SourceCol[1]
TargetCell == TargetCol[1]
AfterFirstAt(w) == IF FirstAt(w) > 0 THEN SubSeq(w, FirstAt(w) + 1, Len(w)) ELSE <<>>
BeforeFirstAt(w) == IF FirstAt(w) > 0 THEN SubSeq(w, 1, FirstAt(w) - 1) ELSE w

\* C5: on a text, extract_domain gives all that follows the first '@', or the
\* empty text when there is no '@'; before_at gives what precedes the first
\* '@', or the whole text when there is none.
C5_SplitOnFirstAt ==
    (pc = "done" /\ HasSource /\ SourceCell.tag = "text") =>
        /\ TheRule.transform_rule = "extract_domain" =>
              TargetCell = Text(AfterFirstAt(SourceCell.s))
        /\ TheRule.transform_rule = "before_at" =>
              TargetCell = Text(BeforeFirstAt(SourceCell.s))

Young == Text(<<"Y", "o", "u", "n", "g">>)
Middle == Text(<<"M", "i", "d", "d", "l", "e">>)
Senior == Text(<<"S", "e", "n", "i", "o", "r">>)

\* C7: on a number v, age_category raises nothing and gives Young when
\* v < 30, Middle when 30 <= v < 45, Senior when v >= 45.
C7_AgeBuckets ==
    (TheRule.transform_rule = "age_category" /\ HasSource
        /\ SourceCell.tag = "number") =>
        /\ pc # "raised"
        /\ pc = "done" =>
              /\ SourceCell.n < 30 => TargetCell = Young
              /\ (30 <= SourceCell.n /\ SourceCell.n < 45) => TargetCell = Middle
              /\ SourceCell.n >= 45 => TargetCell = Senior

\* age_category of 44, the last Middle
C7_Witness ==
    /\ pc = "done"
    /\ TheRule.transform_rule = "age_category"
    /\ HasSource
    /\ SourceCell = Num(44)
    /\ TargetCell = Middle

(***************************************************************************)
(* Properties of the advisor and of the inferencer.                        *)
(***************************************************************************)
IndexOf(names, n) == CHOOSE k \in 1..Len(names) : names[k] = n
SourceOf(m) == IndexOf(SourceNames, m.source_field)
TargetOf(m) == IndexOf(TargetNames, m.target_field)

Similar(s, t) ==
    \/ input_file[s].data_type = target_file[t].data_type
    \/ (input_file[s].patterns.has_email /\ target_file[t].patterns.has_email)
    \/ (input_file[s].patterns.numeric_only /\ target_file[t].patterns.numeric_only)

\* C9: the returned candidates are exactly the similar (source, target) pairs,
\* each once, ordered by target column and, within a target, by source column.
C9_SimilarPairsInOrder ==
    pc = "returned" =>
        /\ \A j \in 1..Len(suggested_mappings) :
              /\ SourceOf(suggested_mappings[j]) \in 1..Len(input_file)
              /\ TargetOf(suggested_mappings[j]) \in 1..Len(target_file)
              /\ Similar(SourceOf(suggested_mappings[j]), TargetOf(suggested_mappings[j]))
        /\ \A t \in 1..Len(target_file) : \A s \in 1..Len(input_file) :
              Similar(s, t) =>
                  \E j \in 1..Len(suggested_mappings) :
                      /\ SourceOf(suggested_mappings[j]) = s
                      /\ TargetOf(suggested_mappings[j]) = t
        /\ \A j \in 1..Len(suggested_mappings) : \A k \in 1..Len(suggested_mappings) :
              j < k =>
                  \/ TargetOf(suggested_mappings[j]) < TargetOf(suggested_mappings[k])
                  \/ /\ TargetOf(suggested_mappings[j]) = TargetOf(suggested_mappings[k])
                     /\ SourceOf(suggested_mappings[j]) < SourceOf(suggested_mappings[k])

\* two sources and two targets: the second source pairs with the first target
\* and comes first, the first source pairs with the second target, and the two
\* other pairs are left out
C9_Witness ==
    /\ pc = "returned"
    /\ Len(input_file) = 2
    /\ Len(target_file) = 2
    /\ Len(suggested_mappings) = 2
    /\ suggested_mappings[1].source_field = "s2"
    /\ suggested_mappings[1].target_field = "t1"
    /\ suggested_mappings[2].source_field = "s1"
    /\ suggested_mappings[2].target_field = "t2"
    /\ ~Similar(1, 1)
    /\ ~Similar(2, 2)

\* the suggestion of the first matching rule among: has_email, numeric (as
\* given), all_uppercase, all_lowercase, default
FirstMatch(p, numeric) ==
    CASE p.patterns.has_email -> "extract_domain or before_at"
      [] ~p.patterns.has_email /\ numeric ->
            "age_category if age-related, otherwise direct"
      [] ~p.patterns.has_email /\ ~numeric /\ p.patterns.all_uppercase ->
            "direct or lowercase"
      [] ~p.patterns.has_email /\ ~numeric /\ ~p.patterns.all_uppercase
            /\ p.patterns.all_lowercase -> "direct or uppercase"
      [] OTHER -> "direct"

Analysed == pc \in {"analyze_target", "pairs", "returned"}

====
